---------------------------- MODULE Spec2Model ----------------------------
(***************************************************************************)
(* pitch-vis: the constrained trajectory solver (hooks/usePitchTrajectory), *)
(* the React memoisation around it, and the App and Baseball components     *)
(* that throw a pitch and animate it.                                       *)
(*                                                                         *)
(* Numbers.  A JavaScript number is modelled as a rational <<n, d>> in     *)
(* lowest terms with d > 0, extended by the three non-finite values of     *)
(* IEEE arithmetic: <<1, 0>> (+Infinity), <<-1, 0>> (-Infinity) and        *)
(* <<0, 0>> (NaN).  An operation whose exact result has a numerator and a  *)
(* denominator of at most 31 bits gives that result, and Math.sqrt is      *)
(* exact on the square of a rational.  Any other result is rounded to 30   *)
(* significant bits (a double has 53).  Overflow, underflow and the sign   *)
(* of zero are not modelled.                                               *)
(*                                                                         *)
(* Arguments.  Spec and SpecAny call the hook on a grid scaled to speeds   *)
(* of a few m/s and targets a few centimetres from the release point, with *)
(* breaks chosen to give round accelerations: every branch of the solver   *)
(* is taken, every square root is of the square of a rational, and every   *)
(* value is the exact real value of the code's formula.  Spec calls the    *)
(* hook with positive speeds only, as the specification of the solver      *)
(* requires; SpecAny also calls it with the speed 0 and a negative speed,  *)
(* which the hook's signature (number) admits.  SpecFreeFall calls it      *)
(* without break and with targets on free-fall parabolas, SpecNear with    *)
(* targets millimetres from the release point.  SpecApp is App as it       *)
(* starts, with the values its controls can be set to; SpecPad is App with *)
(* the pointer on the target pad; SpecAsync is App with frame callbacks    *)
(* that run before their state updates are rendered; SpecStage is the      *)
(* velocity stage of the solver on its own.                                *)
(***************************************************************************)
EXTENDS Integers, Sequences, FiniteSets, TLC

-----------------------------------------------------------------------------
(* Arithmetic on JavaScript numbers *)

Abs(n) == IF n < 0 THEN -n ELSE n

Sgn(n) == IF n < 0 THEN -1 ELSE IF n > 0 THEN 1 ELSE 0

RECURSIVE GCD(_, _)
GCD(a, b) == IF b = 0 THEN a ELSE GCD(b, a % b)

\* n / d for d # 0, g being the greatest common divisor of n and d
Reduced(n, d, g) ==
    IF d > 0 THEN <<n \div g, d \div g>> ELSE <<(-n) \div g, (-d) \div g>>

Norm(n, d) ==
    IF d = 0 THEN <<Sgn(n), 0>> ELSE Reduced(n, d, GCD(Abs(n), Abs(d)))

Q(n, d) == Norm(n, d)

NaN == <<0, 0>>
Zero == <<0, 1>>
One == <<1, 1>>
Two == <<2, 1>>
Four == <<4, 1>>
Half == <<1, 2>>
Quarter == <<1, 4>>

IsNaN(x) == x = NaN
IsFinite(x) == x[2] # 0

Neg(x) == <<-x[1], x[2]>>

\* The integers of the model have 32 bits.  A sum, a product or a square root
\* whose exact value needs a larger numerator or denominator is rounded as a
\* floating-point operation rounds it: the operands are taken with their 30
\* leading bits and so is the result.

\* the largest integer
MaxInt == 2147483647
TwoTo29 == 536870912
TwoTo30 == 1073741824

FitsProduct(a, b) == a = 0 \/ b = 0 \/ Abs(a) <= MaxInt \div Abs(b)
FitsSum(a, b) == IF b >= 0 THEN a <= MaxInt - b ELSE a >= (-MaxInt) - b

\* m / p truncated towards zero
TruncDiv(m, p) == Sgn(m) * (Abs(m) \div p)

\* the leading bits of I + r / d for r < d < 2^30, by long division: the pair
\* <<m, k>> stands for m / 2^k
RECURSIVE Bits(_, _, _, _)
Bits(m, r, d, k) ==
    IF m >= TwoTo29 \/ k >= 60 THEN <<m, k>>
    ELSE IF 2 * r >= d THEN Bits(2 * m + 1, 2 * r - d, d, k + 1)
    ELSE Bits(2 * m, 2 * r, d, k + 1)

\* the leading bits of n / d for n >= 0 and 0 < d < 2^30
Leading(n, d) ==
    IF n \div d >= TwoTo30 THEN <<(n \div d) \div 2, -1>>
    ELSE Bits(n \div d, n % d, d, 0)

WithSign(s, b) == <<s * b[1], b[2]>>

\* the leading bits of the finite number x, with its sign
ToBin(x) ==
    IF x[2] >= TwoTo30
    THEN WithSign(Sgn(x[1]), Leading(Abs(x[1]) \div 2, x[2] \div 2))
    ELSE WithSign(Sgn(x[1]), Leading(Abs(x[1]), x[2]))

\* the number m / 2^k, to the resolution 2^-30
FromBin(m, k) ==
    IF k < 0 THEN Norm(m * 2^(-k), 1)
    ELSE IF k <= 30 THEN Norm(m, 2^k)
    ELSE IF k > 60 THEN <<0, 1>>
    ELSE Norm(TruncDiv(m, 2^(k - 30)), TwoTo30)

\* the sum of b1 and b2, where b1 has the coarser resolution
BinSum(b1, b2) ==
    FromBin(b1[1] + (IF b2[2] - b1[2] > 30 THEN 0
                     ELSE TruncDiv(b2[1], 2^(b2[2] - b1[2]))),
            b1[2])

RoundedSum(bx, by) == IF bx[2] <= by[2] THEN BinSum(bx, by) ELSE BinSum(by, bx)

\* the sum of two finite numbers, g being the greatest common divisor of their
\* denominators
FiniteSum(x, y, g) ==
    IF /\ FitsProduct(x[1], y[2] \div g)
       /\ FitsProduct(y[1], x[2] \div g)
       /\ FitsProduct(x[2] \div g, y[2])
       /\ FitsSum(x[1] * (y[2] \div g), y[1] * (x[2] \div g))
    THEN Norm(x[1] * (y[2] \div g) + y[1] * (x[2] \div g), (x[2] \div g) * y[2])
    ELSE RoundedSum(ToBin(x), ToBin(y))

\* x + y.  Infinity + (-Infinity) and anything + NaN are NaN.
Add(x, y) ==
    IF IsFinite(x) /\ IsFinite(y) THEN FiniteSum(x, y, GCD(x[2], y[2]))
    ELSE IF IsNaN(x) \/ IsNaN(y) THEN NaN
    ELSE IF IsFinite(x) THEN y
    ELSE IF IsFinite(y) THEN x
    ELSE IF x = y THEN x ELSE NaN

Sub(x, y) == Add(x, Neg(y))

\* the i-th digit of m >= 0 in base 2^10
Limb(m, i) == (m \div 1024^i) % 1024

\* the columns of the product of m1 and m2 in base 2^10, each with the carry
\* of the column below
Column0(m1, m2) == Limb(m1, 0) * Limb(m2, 0)
Column1(m1, m2) ==
    Limb(m1, 1) * Limb(m2, 0) + Limb(m1, 0) * Limb(m2, 1) + Column0(m1, m2) \div 1024
Column2(m1, m2) ==
    Limb(m1, 2) * Limb(m2, 0) + Limb(m1, 1) * Limb(m2, 1) + Limb(m1, 0) * Limb(m2, 2)
        + Column1(m1, m2) \div 1024
Column3(m1, m2) ==
    Limb(m1, 2) * Limb(m2, 1) + Limb(m1, 1) * Limb(m2, 2) + Column2(m1, m2) \div 1024
Column4(m1, m2) == Limb(m1, 2) * Limb(m2, 2) + Column3(m1, m2) \div 1024

\* m1 * m2 / 2^30 for 0 <= m1, m2 < 2^30, truncated, and the bit below it
HighProduct(m1, m2) == Column4(m1, m2) * 1024 + (Column3(m1, m2) % 1024)
NextBit(m1, m2) == (Column2(m1, m2) % 1024) \div 512

\* the leading bits of m1 * m2 / 2^30 for 2^29 <= m1, m2 < 2^30
LeadingProduct(m1, m2) ==
    IF HighProduct(m1, m2) >= TwoTo29 THEN <<HighProduct(m1, m2), 0>>
    ELSE <<2 * HighProduct(m1, m2) + NextBit(m1, m2), 1>>

\* the number s * h[1] / 2^(h[2] + k)
Scaled2(s, h, k) == FromBin(s * h[1], h[2] + k)

\* the product of the numbers bx and by given by their leading bits
RoundedProduct(bx, by) ==
    Scaled2(Sgn(bx[1]) * Sgn(by[1]), LeadingProduct(Abs(bx[1]), Abs(by[1])),
            bx[2] + by[2] - 30)

\* the product of two finite numbers, cancelling g1 and g2 across
FiniteProduct(x, y, g1, g2) ==
    IF /\ FitsProduct(x[1] \div g1, y[1] \div g2)
       /\ FitsProduct(x[2] \div g2, y[2] \div g1)
    THEN Norm((x[1] \div g1) * (y[1] \div g2), (x[2] \div g2) * (y[2] \div g1))
    ELSE RoundedProduct(ToBin(x), ToBin(y))

\* x * y.  0 * Infinity and anything * NaN are NaN.
Mul(x, y) ==
    IF IsFinite(x) /\ IsFinite(y)
    THEN FiniteProduct(x, y, GCD(Abs(x[1]), y[2]), GCD(Abs(y[1]), x[2]))
    ELSE IF IsNaN(x) \/ IsNaN(y) THEN NaN
    ELSE <<Sgn(x[1]) * Sgn(y[1]), 0>>

\* 1 / y.  1 / 0 is Infinity, 1 / Infinity is 0.
Inv(y) ==
    IF IsNaN(y) THEN NaN
    ELSE IF ~IsFinite(y) THEN Zero
    ELSE IF y[1] = 0 THEN <<1, 0>>
    ELSE Norm(y[2], y[1])

\* x / y.  x / 0 is +-Infinity for x # 0 and NaN for x = 0.
Div(x, y) == Mul(x, Inv(y))

\* The JavaScript comparisons: every comparison with NaN is false.
Lt(x, y) == LET d == Sub(x, y) IN ~IsNaN(x) /\ ~IsNaN(y) /\ d[1] < 0 /\ x # y
Gt(x, y) == Lt(y, x)
Eq(x, y) == ~IsNaN(x) /\ ~IsNaN(y) /\ x = y
Le(x, y) == Lt(x, y) \/ Eq(x, y)
Ge(x, y) == Le(y, x)

\* Math.abs
AbsQ(x) == <<Abs(x[1]), x[2]>>

RECURSIVE Newton(_, _)
Newton(n, x) ==
    IF (x + n \div x) \div 2 >= x THEN x ELSE Newton(n, (x + n \div x) \div 2)

\* the integer part of the square root of n >= 0
ISqrt(n) == IF n < 2 THEN n ELSE Newton(n, n)

\* r is the square root of n
IsRootOf(r, n) == r * r = n

IsSquareInt(n) == n >= 0 /\ IsRootOf(ISqrt(n), n)

\* x is the square of a rational
IsSquare(x) == IsFinite(x) /\ IsSquareInt(x[1]) /\ IsSquareInt(x[2])

\* b with an even exponent
Even(b) == IF b[2] % 2 = 0 THEN b ELSE <<2 * b[1], b[2] + 1>>

\* 2^14 times the square root of M, from its integer part s0
RootBits(M, s0) == s0 * 16384 + ((M - s0 * s0) * 16384) \div (2 * s0)

\* the square root of the number b > 0 given by its leading bits
RoundedSqrt(b) == FromBin(RootBits(Even(b)[1], ISqrt(Even(b)[1])), 14 + Even(b)[2] \div 2)

\* Math.sqrt: NaN below zero, exact on the square of a rational and rounded on
\* any other number.
Sqrt(x) ==
    IF IsNaN(x) \/ x[1] < 0 THEN NaN
    ELSE IF ~IsFinite(x) THEN x
    ELSE IF IsSquare(x) THEN Norm(ISqrt(x[1]), ISqrt(x[2]))
    ELSE RoundedSqrt(ToBin(x))

-----------------------------------------------------------------------------
(* hooks/usePitchTrajectory: constants *)

GRAVITY == Q(981, 100)
FEET_TO_METERS == Q(3048, 10000)
MILES_TO_METERS == Q(1609344, 1000)
MPH_TO_MPS == Div(MILES_TO_METERS, Q(3600, 1))
INCHES_TO_METERS == Q(254, 10000)

PITCHER_PLATE_DISTANCE_FT == Q(605, 10)
PITCHER_EXTENSION_FT == Q(55, 10)
RELEASE_HEIGHT_FT == Q(6, 1)

RELEASE_DISTANCE_M == Mul(Sub(PITCHER_PLATE_DISTANCE_FT, PITCHER_EXTENSION_FT), FEET_TO_METERS)
RELEASE_HEIGHT_M == Mul(RELEASE_HEIGHT_FT, FEET_TO_METERS)

\* the estimate used when the target is not in front of the release point
DEFAULT_T_EST == Q(1, 10)

-----------------------------------------------------------------------------
(* hooks/usePitchTrajectory: the solver, one operator per step of the memo callback *)

Vec(x, y, z) == [x |-> x, y |-> y, z |-> z]

Dot(u, w) == Add(Add(Mul(u.x, w.x), Mul(u.y, w.y)), Mul(u.z, w.z))

\* 1. unit conversions
v0_mps_sq(velocityMPH) == Mul(Mul(velocityMPH, MPH_TO_MPS), Mul(velocityMPH, MPH_TO_MPS))
ivb_m(ivbInches) == Mul(ivbInches, INCHES_TO_METERS)
hb_m(hbInches) == Mul(hbInches, INCHES_TO_METERS)

\* release point: Z is negative (away from the catcher)
P0 == Vec(Zero, RELEASE_HEIGHT_M, Neg(RELEASE_DISTANCE_M))

P_target(p) == Vec(p.targetX_m, p.targetY_m, p.targetZ_m)

\* 2. displacement
DeltaP(target) == Vec(Sub(target.x, P0.x), Sub(target.y, P0.y), Sub(target.z, P0.z))

\* 3. estimated flight time and accelerations
v_avg_est(velocityMPH) == Mul(velocityMPH, MPH_TO_MPS)

\* T_est with >= for > in its test of DeltaP.z
T_est_orEqual(dP, vAvg) == IF Ge(dP.z, Zero) THEN Div(dP.z, vAvg) ELSE DEFAULT_T_EST

\* T_est with 0 for the default
T_est_zeroDefault(dP, vAvg) == IF Gt(dP.z, Zero) THEN Div(dP.z, vAvg) ELSE Zero

T_est(dP, vAvg) == IF Gt(dP.z, Zero) THEN Div(dP.z, vAvg) ELSE DEFAULT_T_EST

\* a_magnus without its test of the estimate
a_magnus_unguarded(break_m, tEst) == Div(Mul(Two, break_m), Mul(tEst, tEst))

\* a_magnus without the factor 2
a_magnus_noTwo(break_m, tEst) ==
    IF Gt(tEst, Zero) THEN Div(break_m, Mul(tEst, tEst)) ELSE Zero

a_magnus(break_m, tEst) ==
    IF Gt(tEst, Zero) THEN Div(Mul(Two, break_m), Mul(tEst, tEst)) ELSE Zero

\* a_total_y with gravity pointing up
a_total_y_up(spinY) == Add(spinY, GRAVITY)

a_total_y(spinY) == Sub(spinY, GRAVITY)

Accel(hbM, ivbM, tEst) == Vec(a_magnus(hbM, tEst), a_total_y(a_magnus(ivbM, tEst)), Zero)

\* 4. the quadratic in u = T^2
\* quad_A without the factor 0.25
quad_A_noQuarter(a) == Dot(a, a)

quad_A(a) == Mul(Quarter, Dot(a, a))
quad_B(v0sq, dP, a) == Neg(Add(v0sq, Dot(dP, a)))
quad_C(dP) == Dot(dP, dP)

\* discriminant with the sign of 4AC flipped
discriminant_plus(A, B, C) == Add(Mul(B, B), Mul(Mul(Four, A), C))

discriminant(A, B, C) == Sub(Mul(B, B), Mul(Mul(Four, A), C))

u1(A, B, D) == Div(Add(Neg(B), Sqrt(D)), Mul(Two, A))
u2(A, B, D) == Div(Sub(Neg(B), Sqrt(D)), Mul(Two, A))

\* a root's candidate time: sqrt(u) for u > 0, else the marker -1
Candidate(u) == IF Gt(u, Zero) THEN Sqrt(u) ELSE Neg(One)

\* Closer with <= for <, which gives the +sqrt(D) candidate on a tie
Closer_tieFirst(T1, T2, tEst) ==
    IF Le(AbsQ(Sub(T1, tEst)), AbsQ(Sub(T2, tEst))) THEN T1 ELSE T2

\* Closer with the comparison reversed, which gives the farther candidate
Closer_farther(T1, T2, tEst) ==
    IF Gt(AbsQ(Sub(T1, tEst)), AbsQ(Sub(T2, tEst))) THEN T1 ELSE T2

\* both candidates valid: the one closer to the estimate
Closer(T1, T2, tEst) ==
    IF Lt(AbsQ(Sub(T1, tEst)), AbsQ(Sub(T2, tEst))) THEN T1 ELSE T2

\* Choice without the branches for a single valid candidate
Choice_bothOrNone(T1, T2, tEst) ==
    IF Gt(T1, Zero) /\ Gt(T2, Zero)
    THEN [T |-> Closer(T1, T2, tEst), console |-> {}]
    ELSE [T |-> tEst, console |-> {"warn: no valid positive flight time"}]

\* the choice between the two candidates, and what it writes to the console
Choice(T1, T2, tEst) ==
    IF Gt(T1, Zero) /\ Gt(T2, Zero)
    THEN [T |-> Closer(T1, T2, tEst), console |-> {}]
    ELSE IF Gt(T1, Zero) THEN [T |-> T1, console |-> {}]
    ELSE IF Gt(T2, Zero) THEN [T |-> T2, console |-> {}]
    ELSE [T |-> tEst, console |-> {"warn: no valid positive flight time"}]

\* A # 0 and D >= 0: the flight time and what the branch writes to the console
QuadraticCase(A, B, D, tEst) ==
    Choice(Candidate(u1(A, B, D)), Candidate(u2(A, B, D)), tEst)

\* LinearCase without the square root
LinearCase_noSqrt(B, C, tEst) ==
    IF ~Eq(B, Zero) /\ Gt(Div(Neg(C), B), Zero)
    THEN [T |-> Div(Neg(C), B), console |-> {}]
    ELSE [T |-> tEst, console |-> {"warn: no valid flight time (linear case)"}]

\* LinearCase without its warning
LinearCase_silent(B, C, tEst) ==
    IF ~Eq(B, Zero) /\ Gt(Div(Neg(C), B), Zero)
    THEN [T |-> Sqrt(Div(Neg(C), B)), console |-> {}]
    ELSE [T |-> tEst, console |-> {}]

\* A = 0: T^2 = -C / B
LinearCase(B, C, tEst) ==
    IF ~Eq(B, Zero) /\ Gt(Div(Neg(C), B), Zero)
    THEN [T |-> Sqrt(Div(Neg(C), B)), console |-> {}]
    ELSE [T |-> tEst, console |-> {"warn: no valid flight time (linear case)"}]

\* the flight time, which defaults to the estimate; D is the discriminant
FlightTime(A, B, C, D, tEst) ==
    IF Ge(D, Zero) /\ ~Eq(A, Zero) THEN QuadraticCase(A, B, D, tEst)
    ELSE IF Lt(D, Zero)
    THEN [T |-> tEst, console |-> {"warn: negative discriminant"}]
    ELSE IF Eq(A, Zero) THEN LinearCase(B, C, tEst)
    ELSE [T |-> tEst, console |-> {}]

\* the direction times scale
Scaled(direction, scale) ==
    Vec(Mul(direction.x, scale), Mul(direction.y, scale), Mul(direction.z, scale))

\* the default velocity: straight towards the target at the speed asked for
Fallback(direction, mag, speed) ==
    IF Gt(mag, Zero) THEN Scaled(direction, Div(speed, mag))
    ELSE Vec(Zero, Zero, Neg(speed))

\* InitialVelocity with + for - in the rearranged kinematic equation
InitialVelocity_plus(dP, a, flightTime, v0sq) ==
    IF Gt(flightTime, Zero)
    THEN [v0 |-> Vec(Add(Div(dP.x, flightTime), Mul(Mul(Half, a.x), flightTime)),
                     Add(Div(dP.y, flightTime), Mul(Mul(Half, a.y), flightTime)),
                     Add(Div(dP.z, flightTime), Mul(Mul(Half, a.z), flightTime))),
          console |-> {}]
    ELSE [v0 |-> Fallback(dP, Sqrt(Dot(dP, dP)), Sqrt(v0sq)),
          console |-> {"error: flight time is zero or negative"}]

\* 5. the initial velocity and what the step writes to the console
InitialVelocity(dP, a, flightTime, v0sq) ==
    IF Gt(flightTime, Zero)
    THEN [v0 |-> Vec(Sub(Div(dP.x, flightTime), Mul(Mul(Half, a.x), flightTime)),
                     Sub(Div(dP.y, flightTime), Mul(Mul(Half, a.y), flightTime)),
                     Sub(Div(dP.z, flightTime), Mul(Mul(Half, a.z), flightTime))),
          console |-> {}]
    ELSE [v0 |-> Fallback(dP, Sqrt(Dot(dP, dP)), Sqrt(v0sq)),
          console |-> {"error: flight time is zero or negative"}]

\* if (t < 0) t = 0
NonNegative(t) == IF Lt(t, Zero) THEN Zero ELSE t

\* the clamp of a time t0 >= 0 to the flight time
ClampUpper(flightTime, t0) ==
    IF Gt(t0, flightTime) /\ Gt(flightTime, Zero) THEN flightTime
    ELSE IF Le(flightTime, Zero) THEN Zero
    ELSE t0

\* ClampTime without the clamp to the flight time
ClampTime_noUpper(flightTime, t) ==
    IF Le(flightTime, Zero) THEN Zero ELSE NonNegative(t)

\* 6. the trajectory function; f holds what its closure captured
ClampTime(flightTime, t) == ClampUpper(flightTime, NonNegative(t))

\* Position with the acceleration term not multiplied by t * t
Position_noT(f, t) ==
    Vec(Add(Add(f.P0.x, Mul(f.v0.x, t)), Mul(Half, f.a.x)),
        Add(Add(f.P0.y, Mul(f.v0.y, t)), Mul(Half, f.a.y)),
        Add(Add(f.P0.z, Mul(f.v0.z, t)), Mul(Half, f.a.z)))

Position(f, t) ==
    Vec(Add(Add(f.P0.x, Mul(f.v0.x, t)), Mul(Mul(Mul(Half, f.a.x), t), t)),
        Add(Add(f.P0.y, Mul(f.v0.y, t)), Mul(Mul(Mul(Half, f.a.y), t), t)),
        Add(Add(f.P0.z, Mul(f.v0.z, t)), Mul(Mul(Mul(Half, f.a.z), t), t)))

getPositionAtTime(f, t) == Position(f, ClampTime(f.flightTime, t))

\* The local constants of the memo callback up to the discriminant, from each
\* step on, given the constants of the steps before it.
LocalsFromQuadratic(p, v0sq, dP, tEst, a, A, B, C) ==
    [v0_mps_sq |-> v0sq, P_target |-> P_target(p), DeltaP |-> dP, T_est |-> tEst,
     a |-> a, quad_A |-> A, quad_B |-> B, quad_C |-> C,
     discriminant |-> discriminant(A, B, C)]

LocalsFromAccel(p, v0sq, dP, tEst, a) ==
    LocalsFromQuadratic(p, v0sq, dP, tEst, a,
                        quad_A(a), quad_B(v0sq, dP, a), quad_C(dP))

LocalsFromEstimate(p, v0sq, dP, tEst) ==
    LocalsFromAccel(p, v0sq, dP, tEst,
                    Accel(hb_m(p.hbInches), ivb_m(p.ivbInches), tEst))

LocalsFromDisplacement(p, v0sq, dP) ==
    LocalsFromEstimate(p, v0sq, dP, T_est(dP, v_avg_est(p.velocityMPH)))

LocalsOf(p) ==
    LocalsFromDisplacement(p, v0_mps_sq(p.velocityMPH), DeltaP(P_target(p)))

\* the flight time and the console lines of step 4 for the local constants l
FlightTimeOf(l) ==
    FlightTime(l.quad_A, l.quad_B, l.quad_C, l.discriminant, l.T_est)

\* what the memo callback returns, the console lines it wrote and the values of
\* its local constants
Returned(l, ft, vel) ==
    [data |-> [getPositionAtTime |-> [P0 |-> P0, v0 |-> vel.v0, a |-> l.a,
                                      flightTime |-> ft.T],
               flightTime |-> ft.T,
               releasePoint |-> P0,
               initialVelocity |-> vel.v0],
     console |-> ft.console \cup vel.console,
     locals |-> l]

SolveFromFlightTime(l, ft) ==
    Returned(l, ft, InitialVelocity(l.DeltaP, l.a, ft.T, l.v0_mps_sq))

SolveFromLocals(l) == SolveFromFlightTime(l, FlightTimeOf(l))

\* the memo callback on the arguments p
Solve(p) == SolveFromLocals(LocalsOf(p))

-----------------------------------------------------------------------------
(* The arguments the hook is called with *)

\* speeds 1 .. MaxSpeed m/s
MaxSpeed == 2
\* net vertical accelerations 0, -10, .. , -10 * MaxLevel m/s^2, and gravity alone
MaxLevel == 4
\* horizontal accelerations 0, -10, .. , -10 * MaxHb m/s^2
MaxHb == 1
\* targets 0 .. MaxDx twentieths of a metre to the side of the release point
MaxDx == 1
\* targets up to MaxDy twentieths of a metre below and above the release point
MaxDy == 3
\* targets in front of the release point at estimated times 1/10 .. MaxTau/10 s
MaxTau == 2
\* sample times -1/10 .. MaxTick/10 s
MaxTick == 2
MaxDelta == 1
MaxThrows == 2
MaxAxis == 2
MaxPointer == 1
\* launches in free fall with components up to MaxLaunch m/s, observed at
\* 1/5 .. MaxFlight/5 s
MaxLaunch == 5
\* targets up to MaxNear millimetres above and below the release point
MaxNear == 3
\* frame callbacks that run before a render applies the state updates of the first
MaxStale == 2
MaxFlight == 5

\* the speeds the specification allows, and all the speeds of the model: the
\* hook takes any number, so the latter include zero and a negative speed
Speeds == 1 .. MaxSpeed
AnySpeeds == (-1) .. MaxSpeed

Estimates == {Q(j, 10) : j \in 1 .. MaxTau}

\* where the target plane is: behind the release point, level with it (the
\* estimate is then the default), or in front of it at the distance that gives
\* the estimate tau
Placements ==
    {<<"behind", DEFAULT_T_EST>>, <<"level", DEFAULT_T_EST>>}
        \cup {<<"front", tau>> : tau \in Estimates}

\* DeltaP.z for the speed v m/s and the placement pl
Depth(v, pl) ==
    IF pl[1] = "behind" THEN Q(-1, 10)
    ELSE IF pl[1] = "level" THEN Zero
    ELSE Mul(Q(IF v > 0 THEN v ELSE 1, 1), pl[2])

Levels == {GRAVITY} \cup {Q(10 * j, 1) : j \in 0 .. MaxLevel}
Sideways == {Q(-10 * j, 1) : j \in 0 .. MaxHb}
Offsets == {Q(j, 20) : j \in 0 .. MaxDx}
Heights == {Q(j, 20) : j \in (-MaxDy) .. MaxDy}

\* the break, in inches, that gives the acceleration acc over the time tau
BreakInches(acc, tau) == Div(Mul(Mul(acc, Mul(tau, tau)), Half), INCHES_TO_METERS)

\* the six arguments for the speed v m/s, the placement pl, the target
\* P0 + (dx, dy, Depth), the vertical acceleration -k and the horizontal one ax
MkProps(v, pl, k, ax, dx, dy) ==
    [velocityMPH |-> Div(Q(v, 1), MPH_TO_MPS),
     ivbInches |-> BreakInches(Sub(GRAVITY, k), pl[2]),
     hbInches |-> BreakInches(ax, pl[2]),
     targetX_m |-> Add(P0.x, dx),
     targetY_m |-> Add(P0.y, dy),
     targetZ_m |-> Add(P0.z, Depth(v, pl))]

\* targets above and below the release point under every vertical acceleration,
\* and targets to its side under every horizontal acceleration with the vertical
\* break offsetting gravity
Grid(speeds) ==
    {MkProps(v, pl, k, Zero, Zero, dy) :
        v \in speeds, pl \in Placements, k \in Levels, dy \in Heights}
        \cup {MkProps(v, pl, Zero, ax, dx, Zero) :
                 v \in speeds, pl \in Placements, ax \in Sideways, dx \in Offsets}

\* every square root the callback takes is of the square of a rational; l holds
\* the callback's local constants
ExactRoots(l) ==
    /\ (Ge(l.discriminant, Zero) /\ ~Eq(l.quad_A, Zero)) =>
          /\ IsSquare(l.discriminant)
          /\ Gt(u1(l.quad_A, l.quad_B, l.discriminant), Zero) =>
                IsSquare(u1(l.quad_A, l.quad_B, l.discriminant))
          /\ Gt(u2(l.quad_A, l.quad_B, l.discriminant), Zero) =>
                IsSquare(u2(l.quad_A, l.quad_B, l.discriminant))
    /\ (~Lt(l.discriminant, Zero) /\ Eq(l.quad_A, Zero) /\ ~Eq(l.quad_B, Zero)
            /\ Gt(Div(Neg(l.quad_C), l.quad_B), Zero)) =>
          IsSquare(Div(Neg(l.quad_C), l.quad_B))
    /\ ~Gt(FlightTimeOf(l).T, Zero) => IsSquare(l.quad_C)

RationalRoots(p) == ExactRoots(LocalsOf(p))

\* the arguments with a positive speed, and all the arguments of the model
AnyInputs == {p \in Grid(AnySpeeds) : RationalRoots(p)}
Inputs == {p \in AnyInputs : Gt(p.velocityMPH, Zero)}

-----------------------------------------------------------------------------
(* App: the arguments it calls the hook with *)

\* constants.ts
STRIKE_ZONE_BOTTOM == Mul(Q(15, 10), FEET_TO_METERS)
STRIKE_ZONE_TOP == Mul(Q(35, 10), FEET_TO_METERS)
PLATE_POINT_LENGTH == Mul(Q(85, 10), INCHES_TO_METERS)
PLATE_SIDE_LENGTH == Mul(Q(85, 10), INCHES_TO_METERS)
PLATE_TOTAL_DEPTH == Add(PLATE_SIDE_LENGTH, PLATE_POINT_LENGTH)

\* the target plane App passes to the hook
targetPlateBackZ == PLATE_TOTAL_DEPTH

\* the hook's arguments for App's state
AppProps(velocity, ivb, hb, targetX, targetY) ==
    [velocityMPH |-> velocity, ivbInches |-> ivb, hbInches |-> hb,
     targetX_m |-> targetX, targetY_m |-> targetY, targetZ_m |-> targetPlateBackZ]

\* the initial values of App's useState calls
DefaultProps ==
    AppProps(Q(95, 1), Q(15, 1), Q(8, 1), Zero,
             Div(Add(STRIKE_ZONE_TOP, STRIKE_ZONE_BOTTOM), Two))

\* TargetPad: the margin around the strike zone, and the target at the lower
\* left corner of the pad
MARGIN_M == Mul(Four, INCHES_TO_METERS)
STRIKE_ZONE_WIDTH == Mul(Q(17, 1), INCHES_TO_METERS)
minX == Sub(Neg(Div(STRIKE_ZONE_WIDTH, Two)), MARGIN_M)
minY == Sub(STRIKE_ZONE_BOTTOM, MARGIN_M)

\* what the controls are set to: the values App starts with, and these with the
\* velocity slider at its upper end, a break slider at an end, or the target at
\* the corner of the pad
\* PitchControls: the ends of the velocity control's range
velocityMin_zero == Zero
velocityMin == Q(60, 1)
velocityMax == Q(105, 1)

AppInputs ==
    {DefaultProps,
     [DefaultProps EXCEPT !.velocityMPH = velocityMin],
     [DefaultProps EXCEPT !.velocityMPH = velocityMax],
     [DefaultProps EXCEPT !.ivbInches = Q(-25, 1)],
     [DefaultProps EXCEPT !.hbInches = Q(25, 1)],
     [DefaultProps EXCEPT !.targetX_m = minX, !.targetY_m = minY]}

\* TargetPad: the pad's size in pixels, and the other ends of the target's range
padWidth == Q(150, 1)
padHeight == Q(150, 1)
maxX == Add(Div(STRIKE_ZONE_WIDTH, Two), MARGIN_M)
maxY == Add(STRIKE_ZONE_TOP, MARGIN_M)

\* Math.min and Math.max
MathMin(x, y) == IF IsNaN(x) \/ IsNaN(y) THEN NaN ELSE IF Lt(y, x) THEN y ELSE x
MathMax(x, y) == IF IsNaN(x) \/ IsNaN(y) THEN NaN ELSE IF Gt(y, x) THEN y ELSE x

\* the pixel coordinate taken as it is
ClampPixel_none(size, v) == v

\* Math.max(0, Math.min(size, v))
ClampPixel(size, v) == MathMax(Zero, MathMin(size, v))

\* newTargetX and newTargetY for the clamped coordinates x and y
newTargetX(x) == Add(minX, Mul(Div(x, padWidth), Sub(maxX, minX)))
newTargetY(y) == Add(minY, Mul(Div(Sub(padHeight, y), padHeight), Sub(maxY, minY)))

\* the hook's arguments after updateTarget(clientX, clientY), x and y being
\* clientX - rect.left and clientY - rect.top
UpdateTarget(p, x, y) ==
    [p EXCEPT !.targetX_m = newTargetX(ClampPixel(padWidth, x)),
              !.targetY_m = newTargetY(ClampPixel(padHeight, y))]

\* where the pointer is, from the pad's top left corner: on an edge of the pad,
\* at its centre, or outside
Pointers == {Mul(Q(j, 2), padWidth) : j \in (-MaxPointer) .. (2 + MaxPointer)}

\* the arguments the pad gives the hook from the arguments App starts with
PadInputs == {UpdateTarget(DefaultProps, x, y) : x \in Pointers, y \in Pointers}

\* The hook called without break and with a target that a ball in free fall
\* passes through: the ball leaves the release point with the velocity
\* (0, vy, vz), whose magnitude is a whole number of m/s, and is at the target
\* at the time t
Launches ==
    {l \in [vy : (-MaxLaunch) .. MaxLaunch, vz : (-MaxLaunch) .. MaxLaunch,
            t : {Q(j, 5) : j \in 1 .. MaxFlight}] :
        (l.vy # 0 \/ l.vz # 0) /\ IsSquareInt(l.vy * l.vy + l.vz * l.vz)}

LaunchSpeed(l) == Q(ISqrt(l.vy * l.vy + l.vz * l.vz), 1)

\* P0 + v t + (1/2) (0, -g, 0) t^2 for the launch l
FreeFallPoint(l) ==
    Vec(P0.x,
        Sub(Add(P0.y, Mul(Q(l.vy, 1), l.t)), Mul(Mul(Half, GRAVITY), Mul(l.t, l.t))),
        Add(P0.z, Mul(Q(l.vz, 1), l.t)))

FreeFallProps(l) ==
    [velocityMPH |-> Div(LaunchSpeed(l), MPH_TO_MPS),
     ivbInches |-> Zero,
     hbInches |-> Zero,
     targetX_m |-> FreeFallPoint(l).x,
     targetY_m |-> FreeFallPoint(l).y,
     targetZ_m |-> FreeFallPoint(l).z]

\* each launch with its arguments
LaunchTable == {[launch |-> l, props |-> FreeFallProps(l)] : l \in Launches}

FreeFallInputs == {e.props : e \in LaunchTable}

\* The hook called with App's speeds, without break, and with a target within
\* millimetres of the release point
NearOffsets == {Q(j, 1000) : j \in (-MaxNear) .. MaxNear}

NearInputs ==
    {[velocityMPH |-> v, ivbInches |-> Zero, hbInches |-> Zero,
      targetX_m |-> Add(P0.x, dx), targetY_m |-> Add(P0.y, dy), targetZ_m |-> P0.z] :
        v \in {velocityMin, DefaultProps.velocityMPH, velocityMax},
        dx \in NearOffsets, dy \in NearOffsets}

\* what the memo callback gives on the arguments of the model, computed once:
\* those of the hook and of App, the targets near the release point, and the
\* targets a ball in free fall passes through
Solved == [p \in AnyInputs \cup AppInputs \cup PadInputs |-> Solve(p)]
SolvedNear == [p \in NearInputs |-> Solve(p)]
SolvedFreeFall == [p \in FreeFallInputs |-> Solve(p)]

-----------------------------------------------------------------------------
(* The hook in its component: renders and calls of the returned function *)

VARIABLES
    props,           \* the six arguments of the latest render
    memoDeps,        \* the dependency array useMemo holds
    trajectoryData,  \* the object useMemo holds, which the hook returns
    console,         \* what the latest run of the memo callback wrote
    recomputed,      \* whether the latest render ran the memo callback
    call,            \* the latest call of trajectoryData.getPositionAtTime
    isAnimating,     \* App's state isAnimating
    animationTime,   \* App's state animationTime
    ball,            \* the position of the ball's mesh
    passed,          \* the times the last two animating frames passed since the last Throw
    throws,          \* how many times Throw Pitch was pressed
    stage,           \* the velocity stage alone: its arguments and what it gave
    called,          \* what the latest useFrame callback called, of setAnimationTime
                     \* and onAnimationComplete
    completions,     \* how many times onAnimationComplete ran since the last Throw
    pad,             \* TargetPad: its state pad, and the x and y of the
                     \* latest call of updateTarget before they are clamped
    pending          \* the state updates of frame callbacks that no render applied yet

vars ==
    <<props, memoDeps, trajectoryData, console, recomputed, call, isAnimating,
      animationTime, ball, passed, throws, stage, called, completions, pad,
      pending>>

NoCall == [t |-> NaN, pos |-> Vec(NaN, NaN, NaN), made |-> FALSE]

\* no state update waits for a render: each setter with whether it was called
\* and the value it was called with
NoPending ==
    [time |-> [set |-> FALSE, value |-> Zero],
     animating |-> [set |-> FALSE, value |-> FALSE],
     frames |-> 0]

\* the velocity stage has not run
NoStage == [ran |-> FALSE, in |-> << >>]

\* the dependency array without targetZ_m
Deps_noTargetZ(p) == <<p.velocityMPH, p.ivbInches, p.hbInches, p.targetX_m, p.targetY_m>>

\* the dependency array of useMemo
Deps(p) == <<p.velocityMPH, p.ivbInches, p.hbInches, p.targetX_m, p.targetY_m, p.targetZ_m>>

\* the state after the first render, s being what the memo callback gave
Mounted(p, s) ==
    /\ props = p
    /\ memoDeps = Deps(p)
    /\ trajectoryData = s.data
    /\ console = s.console
    /\ recomputed = TRUE
    /\ call = NoCall
    /\ isAnimating = FALSE
    /\ animationTime = Zero
    /\ ball = Vec(Zero, Zero, Zero)
    /\ passed = << >>
    /\ throws = 0
    /\ called = {}
    /\ completions = 0
    /\ pad = [isDragging |-> FALSE, x |-> NaN, y |-> NaN]
    /\ pending = NoPending

\* the first render runs the memo callback
Mount(p) == Mounted(p, Solved[p]) /\ stage = NoStage

Init == \E p \in Inputs : Mount(p)
InitAny == \E p \in AnyInputs : Mount(p)

\* useMemo holds the new dependencies and s, what the memo callback gave
Recompute(q, s) ==
    /\ memoDeps' = Deps(q)
    /\ trajectoryData' = s.data
    /\ console' = s.console
    /\ recomputed' = TRUE

\* a render with the arguments q: useMemo runs the callback when a dependency
\* differs from the one it holds, and returns the object it holds otherwise;
\* s is what the memo callback gives on q
HookRendered(q, s) ==
    /\ props' = q
    /\ IF Deps(q) # memoDeps
       THEN Recompute(q, s)
       ELSE /\ UNCHANGED <<memoDeps, trajectoryData, console>>
            /\ recomputed' = FALSE
    /\ call' = NoCall

HookRender(q) == HookRendered(q, Solved[q])

\* a render after an event handler of a control ran
Render(q) ==
    /\ HookRender(q)
    /\ UNCHANGED <<isAnimating, animationTime, ball, passed, throws, stage>>
    /\ UNCHANGED <<called, completions, pad, pending>>

\* a call trajectoryData.getPositionAtTime(t)
Sample(t) ==
    /\ call' = [t |-> t, pos |-> getPositionAtTime(trajectoryData.getPositionAtTime, t),
                made |-> TRUE]
    /\ UNCHANGED <<props, memoDeps, trajectoryData, console, recomputed>>
    /\ UNCHANGED <<isAnimating, animationTime, ball, passed, throws, stage>>
    /\ UNCHANGED <<called, completions, pad, pending>>

\* the times the function is called with: the ticks and the flight time itself
Times == {Q(j, 10) : j \in (-1) .. MaxTick} \cup {trajectoryData.flightTime}

\* the arguments each event handler sets: a slider's value, the target's x and
\* y together, or the target plane
Handlers ==
    {{"velocityMPH"}, {"ivbInches"}, {"hbInches"}, {"targetX_m", "targetY_m"},
     {"targetZ_m"}}

\* q is p after at most one event handler ran
Changes(p, q) ==
    \E h \in Handlers : \A f \in (DOMAIN p) \ h : q[f] = p[f]

Next ==
    \/ \E q \in Inputs : Changes(props, q) /\ Render(q)
    \/ \E t \in Times : Sample(t)

NextAny ==
    \/ \E q \in AnyInputs : Changes(props, q) /\ Render(q)
    \/ \E t \in Times : Sample(t)

Spec == Init /\ [][Next]_vars
SpecAny == InitAny /\ [][NextAny]_vars

\* the hook called with the free-fall arguments only
InitFreeFall == \E p \in FreeFallInputs : Mounted(p, SolvedFreeFall[p]) /\ stage = NoStage

RenderFreeFall(q) ==
    /\ HookRendered(q, SolvedFreeFall[q])
    /\ UNCHANGED <<isAnimating, animationTime, ball, passed, throws, stage>>
    /\ UNCHANGED <<called, completions, pad, pending>>

NextFreeFall ==
    \/ \E q \in FreeFallInputs : Changes(props, q) /\ RenderFreeFall(q)
    \/ \E t \in Times : Sample(t)

SpecFreeFall == InitFreeFall /\ [][NextFreeFall]_vars

\* the hook called with the targets near the release point only
InitNear == \E p \in NearInputs : Mounted(p, SolvedNear[p]) /\ stage = NoStage

RenderNear(q) ==
    /\ HookRendered(q, SolvedNear[q])
    /\ UNCHANGED <<isAnimating, animationTime, ball, passed, throws, stage>>
    /\ UNCHANGED <<called, completions, pad, pending>>

NextNear ==
    \/ \E q \in NearInputs : Changes(props, q) /\ RenderNear(q)
    \/ \E t \in Times : Sample(t)

SpecNear == InitNear /\ [][NextNear]_vars

-----------------------------------------------------------------------------
(* App and the Baseball component that animates the pitch *)

\* flightTime > 0 ? flightTime : 0
EndTime(flightTime) == IF Gt(flightTime, Zero) THEN flightTime ELSE Zero

\* newTime not clamped at the end of the flight
NewTime_noClamp(time, delta, flightTime) == Add(time, delta)

\* newTime with the frame's time taken off
NewTime_back(time, delta, flightTime) == MathMin(Sub(time, delta), EndTime(flightTime))

\* newTime of the animating branch
NewTime(time, delta, flightTime) == MathMin(Add(time, delta), EndTime(flightTime))

\* the other branch of useFrame with the ball always put at the release point
IdleFrame_release(d, time) == [rests |-> FALSE, pos |-> d.releasePoint]

\* newTime >= flightTime && flightTime > 0, with > for >=
Completes_strict(newTime, flightTime) == Gt(newTime, flightTime) /\ Gt(flightTime, Zero)

\* newTime >= flightTime && flightTime > 0
Completes(newTime, flightTime) == Ge(newTime, flightTime) /\ Gt(flightTime, Zero)

\* a render after a state setter ran: the hook's arguments are the same, so
\* useMemo returns the object it holds
Rerender ==
    /\ recomputed' = FALSE
    /\ UNCHANGED <<props, memoDeps, trajectoryData, console>>

\* handleThrowPitch without setAnimationTime(0)
ThrowPitch_noReset ==
    /\ throws < MaxThrows
    /\ throws' = throws + 1
    /\ isAnimating' = TRUE
    /\ passed' = << >>
    /\ Rerender
    /\ called' = {}
    /\ completions' = 0
    /\ pending' = NoPending
    /\ UNCHANGED <<animationTime, call, ball, stage, pad>>

\* handleThrowPitch: setAnimationTime(0); setIsAnimating(true).  They are the
\* latest updates of both states, so no earlier update outlives them.
ThrowPitch ==
    /\ throws < MaxThrows
    /\ throws' = throws + 1
    /\ animationTime' = Zero
    /\ isAnimating' = TRUE
    /\ passed' = << >>
    /\ Rerender
    /\ called' = {}
    /\ completions' = 0
    /\ pending' = NoPending
    /\ UNCHANGED <<call, ball, stage, pad>>

\* the time a frame takes, in fifths of a second
Deltas == {Q(j, 5) : j \in 1 .. MaxDelta}

\* the animating branch of useFrame on the trajectory d: the time it passes,
\* the position it gets, and whether it calls onAnimationComplete
Outcome(d, newTime) ==
    [newTime |-> newTime,
     pos |-> getPositionAtTime(d.getPositionAtTime, newTime),
     completes |-> Completes(newTime, d.flightTime)]

AnimatingFrame(d, time, delta) == Outcome(d, NewTime(time, delta, d.flightTime))

\* the other branch of useFrame: the ball rests where the flight ended once
\* the animation has completed, and at the release point otherwise
IdleFrame(d, time) ==
    IF Completes(time, d.flightTime)
    THEN [rests |-> TRUE, pos |-> getPositionAtTime(d.getPositionAtTime, d.flightTime)]
    ELSE [rests |-> FALSE, pos |-> d.releasePoint]

\* both branches on the trajectories and the times of the model, computed once
ThrownData == {Solve(p).data : p \in AppInputs}
AppTimes(D) ==
    {Q(j, 5) : j \in (-5) .. 5}
        \cup {Add(d.flightTime, Q(j, 5)) : d \in D, j \in 0 .. 2}
AnimatingFramesOn(D) ==
    {[d |-> d, time |-> t, delta |-> delta, outcome |-> AnimatingFrame(d, t, delta)] :
        d \in D, t \in AppTimes(D), delta \in Deltas}
IdleFramesOn(D) ==
    {[d |-> d, time |-> t, outcome |-> IdleFrame(d, t)] : d \in D, t \in AppTimes(D)}
AnimatingFrames == AnimatingFramesOn(ThrownData)
IdleFrames == IdleFramesOn(ThrownData)

\* the entry of a table, or what the branch computes where the table has none
Entry(known, computed) ==
    IF known = {} THEN computed ELSE (CHOOSE r \in known : TRUE).outcome

AnimatingFrameOf(d, time, delta) ==
    Entry({r \in AnimatingFrames : r.d = d /\ r.time = time /\ r.delta = delta},
          AnimatingFrame(d, time, delta))

IdleFrameOf(d, time) ==
    Entry({r \in IdleFrames : r.d = d /\ r.time = time}, IdleFrame(d, time))

\* the times passed by the frame before and by the frame that passes t
Window(ts, t) == IF ts = << >> THEN <<t>> ELSE <<ts[Len(ts)], t>>

\* what the animating branch called: if (newTime !== animationTime)
\* setAnimationTime(newTime), and onAnimationComplete() at the end of the flight
Calls(changed, completes) ==
    (IF changed THEN {"setAnimationTime"} ELSE {})
        \cup (IF completes THEN {"onAnimationComplete"} ELSE {})

\* the animating branch with the outcome o: setAnimationTime(newTime), the
\* call, onAnimationComplete() at the end of the flight
\* (handleAnimationComplete: setIsAnimating(false)), and the mesh moved
Animate(o) ==
    /\ animationTime' = o.newTime
    /\ call' = [t |-> o.newTime, pos |-> o.pos, made |-> TRUE]
    /\ passed' = Window(passed, o.newTime)
    /\ isAnimating' = ~o.completes
    /\ ball' = o.pos
    /\ called' = Calls(o.newTime # animationTime, o.completes)
    /\ completions' = IF o.completes THEN completions + 1 ELSE completions
    /\ IF o.newTime # animationTime \/ o.completes
       THEN Rerender
       ELSE UNCHANGED <<props, memoDeps, trajectoryData, console, recomputed>>
    /\ UNCHANGED <<throws, stage, pad, pending>>

\* the other branch with the outcome o, and the mesh moved
Idle(o) ==
    /\ call' = IF o.rests
               THEN [t |-> trajectoryData.flightTime, pos |-> o.pos, made |-> TRUE]
               ELSE call
    /\ ball' = o.pos
    /\ UNCHANGED <<props, memoDeps, trajectoryData, console, recomputed>>
    /\ called' = {}
    /\ UNCHANGED <<isAnimating, animationTime, passed, throws, stage>>
    /\ UNCHANGED <<completions, pad, pending>>

\* the callback of useFrame for a frame that took delta
Frame(delta) ==
    IF isAnimating
    THEN Animate(AnimatingFrameOf(trajectoryData, animationTime, delta))
    ELSE Idle(IdleFrameOf(trajectoryData, animationTime))

InitApp == Mount(DefaultProps)

NextApp ==
    \/ \E q \in AppInputs : Changes(props, q) /\ Render(q)
    \/ ThrowPitch
    \/ \E delta \in Deltas : Frame(delta)

SpecApp == InitApp /\ [][NextApp]_vars

\* App with the frame loop running ahead of the renders: a state update made
\* by a frame callback waits in pending until a render applies it, and until
\* then the callback reads the isAnimating and animationTime of the last render

\* the updates waiting after the animating branch with the outcome o
Enqueued(o) ==
    [time |-> IF o.newTime # animationTime
              THEN [set |-> TRUE, value |-> o.newTime]
              ELSE pending.time,
     animating |-> IF o.completes
                   THEN [set |-> TRUE, value |-> FALSE]
                   ELSE pending.animating,
     frames |-> pending.frames + 1]

\* the animating branch with the outcome o, its state updates left waiting
AnimateStale(o) ==
    /\ call' = [t |-> o.newTime, pos |-> o.pos, made |-> TRUE]
    /\ passed' = Window(passed, o.newTime)
    /\ ball' = o.pos
    /\ called' = Calls(o.newTime # animationTime, o.completes)
    /\ completions' = IF o.completes THEN completions + 1 ELSE completions
    /\ pending' = IF o.newTime # animationTime \/ o.completes
                  THEN Enqueued(o)
                  ELSE pending
    /\ UNCHANGED <<props, memoDeps, trajectoryData, console, recomputed>>
    /\ UNCHANGED <<isAnimating, animationTime, throws, stage, pad>>

\* the callback of useFrame, at most MaxStale of them with updates waiting
FrameStale(delta) ==
    IF isAnimating
    THEN /\ pending.frames < MaxStale
         /\ AnimateStale(AnimatingFrameOf(trajectoryData, animationTime, delta))
    ELSE Idle(IdleFrameOf(trajectoryData, animationTime))

\* the render that applies the waiting updates
Commit ==
    /\ pending.frames > 0
    /\ animationTime' = IF pending.time.set THEN pending.time.value ELSE animationTime
    /\ isAnimating' = IF pending.animating.set THEN pending.animating.value
                      ELSE isAnimating
    /\ pending' = NoPending
    /\ Rerender
    /\ UNCHANGED <<call, ball, passed, throws, stage, called, completions, pad>>

NextAsync ==
    \/ \E q \in AppInputs : Changes(props, q) /\ Render(q)
    \/ ThrowPitch
    \/ \E delta \in Deltas : FrameStale(delta)
    \/ Commit

SpecAsync == InitApp /\ [][NextAsync]_vars

\* frames keep being delivered
SpecAppFair == SpecApp /\ WF_vars(\E delta \in Deltas : Frame(delta))

-----------------------------------------------------------------------------
(* App with the target pad, before a pitch is thrown: mouse and touch events
   on the pad, and the frames *)

\* updateTarget(clientX, clientY): setTargetX, setTargetY and the render
Target(x, y) ==
    /\ HookRender(UpdateTarget(props, x, y))
    /\ UNCHANGED <<isAnimating, animationTime, ball, passed, throws, stage>>
    /\ UNCHANGED <<called, completions, pending>>

\* handleMouseDown and onTouchStart: setIsDragging(true); updateTarget(...)
PointerDown(x, y) ==
    /\ pad' = [isDragging |-> TRUE, x |-> x, y |-> y]
    /\ Target(x, y)

\* handleMouseMove and onTouchMove: if (isDragging) updateTarget(...)
PointerMove(x, y) ==
    /\ pad.isDragging
    /\ pad' = [isDragging |-> TRUE, x |-> x, y |-> y]
    /\ Target(x, y)

\* handleMouseUp, onTouchEnd and onTouchCancel: if (isDragging)
\* setIsDragging(false)
PointerUp ==
    /\ pad.isDragging
    /\ pad' = [pad EXCEPT !.isDragging = FALSE]
    /\ UNCHANGED <<props, memoDeps, trajectoryData, console, recomputed, call>>
    /\ UNCHANGED <<isAnimating, animationTime, ball, passed, throws, stage>>
    /\ UNCHANGED <<called, completions, pending>>

NextPad ==
    \/ \E x \in Pointers, y \in Pointers : PointerDown(x, y)
    \/ \E x \in Pointers, y \in Pointers : PointerMove(x, y)
    \/ PointerUp
    \/ \E delta \in Deltas : Frame(delta)

SpecPad == InitApp /\ [][NextPad]_vars

-----------------------------------------------------------------------------
(* Step 5 of the memo callback on its own: the velocity stage as a function of
   the displacement, the acceleration, the flight time and the squared speed *)

Axis == (-MaxAxis) .. MaxAxis

\* displacements whose length is a rational number
StageDisplacements ==
    {dP \in {Vec(Q(x, 1), Q(y, 1), Q(z, 1)) : x \in Axis, y \in Axis, z \in Axis} :
        IsSquare(Dot(dP, dP))}

StageInputs ==
    [dP : StageDisplacements,
     a : {Vec(Zero, Zero, Zero), Vec(Zero, Neg(GRAVITY), Zero)},
     flightTime : {Q(-1, 1), Zero, One},
     v0sq : {v0_mps_sq(Q(v, 1)) : v \in AnySpeeds}]

\* the arguments are chosen; the component around the stage is App's
InitStage ==
    /\ Mounted(DefaultProps, Solved[DefaultProps])
    /\ \E i \in StageInputs : stage = [ran |-> FALSE, in |-> i]

\* the stage runs on its arguments
RunStage ==
    /\ ~stage.ran
    /\ stage' = [ran |-> TRUE, in |-> stage.in,
                 out |-> InitialVelocity(stage.in.dP, stage.in.a,
                                         stage.in.flightTime, stage.in.v0sq)]
    /\ UNCHANGED <<props, memoDeps, trajectoryData, console, recomputed, call>>
    /\ UNCHANGED <<isAnimating, animationTime, ball, passed, throws>>
    /\ UNCHANGED <<called, completions, pad, pending>>

NextStage == RunStage

SpecStage == InitStage /\ [][NextStage]_vars


-----------------------------------------------------------------------------
(* The vocabulary of the claims *)

\* what the memo callback gives on the arguments p, whichever table holds them
Solution(p) ==
    IF p \in NearInputs THEN SolvedNear[p]
    ELSE IF p \in FreeFallInputs THEN SolvedFreeFall[p]
    ELSE Solved[p]

\* the callback's local constants for the current arguments
Locals == Solution(props).locals

\* the candidate times of the +sqrt(D) root and of the -sqrt(D) root
Candidate1 == Candidate(u1(Locals.quad_A, Locals.quad_B, Locals.discriminant))
Candidate2 == Candidate(u2(Locals.quad_A, Locals.quad_B, Locals.discriminant))

InQuadraticCase == Ge(Locals.discriminant, Zero) /\ ~Eq(Locals.quad_A, Zero)
InLinearCase == ~InQuadraticCase /\ ~Lt(Locals.discriminant, Zero) /\ Eq(Locals.quad_A, Zero)

\* the flight time is taken from a strictly positive root, not from the estimate
RootTaken ==
    \/ InQuadraticCase /\ (Gt(Candidate1, Zero) \/ Gt(Candidate2, Zero))
    \/ /\ InLinearCase
       /\ ~Eq(Locals.quad_B, Zero)
       /\ Gt(Div(Neg(Locals.quad_C), Locals.quad_B), Zero)

BothValid == InQuadraticCase /\ Gt(Candidate1, Zero) /\ Gt(Candidate2, Zero)

\* B^2 - 4AC < 0 for the A, B and C of the current arguments
NegativeDiscriminant ==
    Lt(Sub(Mul(Locals.quad_B, Locals.quad_B),
           Mul(Four, Mul(Locals.quad_A, Locals.quad_C))), Zero)

\* how far a candidate time is from the estimate
Distance(T) == AbsQ(Sub(T, Locals.T_est))

FiniteVec(u) == IsFinite(u.x) /\ IsFinite(u.y) /\ IsFinite(u.z)

SampledAt(t) == call.made /\ call.t = t

-----------------------------------------------------------------------------
(* C1 .. C10 *)

\* C1: whenever the flight time is taken from a root of the flight-time
\* equation (the solution is exact), getPositionAtTime(flightTime) is the target
\* point in all three coordinates.
C1_RoundTrip ==
    (SampledAt(trajectoryData.flightTime) /\ RootTaken) => call.pos = P_target(props)

\* an exact solution of the quadratic case, sampled at its flight time, whose
\* target is not the release point
C1_Witness ==
    /\ SampledAt(trajectoryData.flightTime)
    /\ RootTaken /\ InQuadraticCase
    /\ call.pos # trajectoryData.releasePoint

\* C2: whenever the flight time T is taken from a root, the initial velocity
\* has the squared magnitude of the requested speed, and T satisfies
\* A T^4 + B T^2 + C = 0 with A = |a|^2 / 4, B = -(v0^2 + DeltaP . a), C = |DeltaP|^2.
C2_SpeedConstraint ==
    RootTaken =>
        LET T == trajectoryData.flightTime
            v == trajectoryData.initialVelocity
            a == trajectoryData.getPositionAtTime.a
            speed == Mul(props.velocityMPH, MPH_TO_MPS)
            A == Mul(Quarter, Dot(a, a))
            B == Neg(Add(Mul(speed, speed), Dot(Locals.DeltaP, a)))
            C == Dot(Locals.DeltaP, Locals.DeltaP)
            TT == Mul(T, T)
        IN  /\ Dot(v, v) = Mul(speed, speed)
            /\ Add(Mul(Add(Mul(A, TT), B), TT), C) = Zero

\* a solution chosen among two different valid candidates
C2_Witness == BothValid /\ Candidate1 # Candidate2 /\ RootTaken

\* C3: getPositionAtTime(0) is the release point, whichever branch produced
\* the flight time and the initial velocity.
C3_ReleasePoint == SampledAt(Zero) => call.pos = trajectoryData.releasePoint

\* a fallback solution with a non-zero initial velocity, sampled at 0
C3_Witness ==
    /\ SampledAt(Zero)
    /\ ~RootTaken
    /\ trajectoryData.initialVelocity # Vec(Zero, Zero, Zero)

\* C4: getPositionAtTime clamps its argument: a time after the flight time gives
\* the position at the flight time, a negative time the position at 0, and with
\* a flight time <= 0 every time gives the release point.
C4_Clamp ==
    call.made =>
        LET f == trajectoryData.getPositionAtTime
            T == trajectoryData.flightTime
        IN  /\ Gt(call.t, T) => call.pos = getPositionAtTime(f, T)
            /\ Lt(call.t, Zero) => call.pos = getPositionAtTime(f, Zero)
            /\ Le(T, Zero) => call.pos = trajectoryData.releasePoint

\* a solution with a negative flight time, sampled at a positive time
C4_Witness ==
    /\ call.made
    /\ Lt(trajectoryData.flightTime, Zero)
    /\ Gt(call.t, Zero)

\* C5: with a speed > 0 the flight time is finite and strictly positive in
\* every branch, and the velocity step never takes its branch for a flight
\* time <= 0.
C5_PositiveFlightTime ==
    Gt(props.velocityMPH, Zero) =>
        /\ IsFinite(trajectoryData.flightTime)
        /\ Gt(trajectoryData.flightTime, Zero)
        /\ "error: flight time is zero or negative" \notin console

\* a fallback to an estimate that the division DeltaP.z / v_avg_est computed
C5_Witness ==
    /\ Gt(props.velocityMPH, Zero)
    /\ ~RootTaken
    /\ Gt(Locals.DeltaP.z, Zero)
    /\ trajectoryData.flightTime # DEFAULT_T_EST

\* C6 as stated: with a negative discriminant the solution is marked
\* reachable == false and the flight time is the estimate, finite and positive.
C6_Original ==
    NegativeDiscriminant =>
        /\ "reachable" \in DOMAIN trajectoryData
        /\ trajectoryData.reachable = FALSE
        /\ trajectoryData.flightTime = Locals.T_est
        /\ IsFinite(trajectoryData.flightTime)
        /\ Gt(trajectoryData.flightTime, Zero)

\* C6 as amended: with a negative discriminant the solver writes the
\* unreachable-target warning to the console (the solution has no field
\* reachable) and the flight time is the estimate, finite and positive.
C6_Amended ==
    NegativeDiscriminant =>
        /\ console = {"warn: negative discriminant"}
        /\ trajectoryData.flightTime = Locals.T_est
        /\ IsFinite(trajectoryData.flightTime)
        /\ Gt(trajectoryData.flightTime, Zero)

\* a negative discriminant with an estimate other than the default
C6_Witness ==
    /\ NegativeDiscriminant
    /\ Gt(Locals.DeltaP.z, Zero)
    /\ trajectoryData.flightTime # DEFAULT_T_EST

\* C7 as stated: the solution carries a boolean reachable, true exactly when
\* the flight time is taken from a strictly positive root.
C7_Original ==
    /\ "reachable" \in DOMAIN trajectoryData
    /\ trajectoryData.reachable = RootTaken

\* C7 as amended: the solution has the four fields getPositionAtTime,
\* flightTime, releasePoint and initialVelocity and no field reachable; the
\* solver writes nothing to the console exactly when the flight time is taken
\* from a strictly positive root, a warning when the flight time is the
\* estimate, and an error when the velocity step takes its branch for a flight
\* time <= 0.
C7_Amended ==
    /\ DOMAIN trajectoryData =
           {"getPositionAtTime", "flightTime", "releasePoint", "initialVelocity"}
    /\ (console = {}) <=> RootTaken
    /\ ~RootTaken =>
           /\ trajectoryData.flightTime = Locals.T_est
           /\ \E line \in {"warn: negative discriminant",
                           "warn: no valid positive flight time",
                           "warn: no valid flight time (linear case)"} : line \in console
    /\ ("error: flight time is zero or negative" \in console)
           <=> ~Gt(trajectoryData.flightTime, Zero)

\* the linear case without a positive root
C7_Witness == InLinearCase /\ ~RootTaken

\* C8 as stated: with both candidates valid the flight time is the candidate
\* closer to the estimate, and the +sqrt(D) candidate when both are as close.
C8_Original ==
    BothValid =>
        /\ Lt(Distance(Candidate1), Distance(Candidate2))
               => trajectoryData.flightTime = Candidate1
        /\ Lt(Distance(Candidate2), Distance(Candidate1))
               => trajectoryData.flightTime = Candidate2
        /\ Eq(Distance(Candidate1), Distance(Candidate2))
               => trajectoryData.flightTime = Candidate1

\* C8 as amended: with both candidates valid the flight time is the candidate
\* closer to the estimate, and the -sqrt(D) candidate when both are as close.
C8_Amended ==
    BothValid =>
        /\ Lt(Distance(Candidate1), Distance(Candidate2))
               => trajectoryData.flightTime = Candidate1
        /\ Lt(Distance(Candidate2), Distance(Candidate1))
               => trajectoryData.flightTime = Candidate2
        /\ Eq(Distance(Candidate1), Distance(Candidate2))
               => trajectoryData.flightTime = Candidate2

\* two different valid candidates as close to the estimate as each other
C8_Witness ==
    /\ BothValid
    /\ Candidate1 # Candidate2
    /\ Eq(Distance(Candidate1), Distance(Candidate2))

\* C9 as stated: no division has a zero divisor, so the flight time, the
\* initial velocity and every sampled position are finite numbers.
C9_Original ==
    /\ IsFinite(trajectoryData.flightTime)
    /\ FiniteVec(trajectoryData.initialVelocity)
    /\ call.made => FiniteVec(call.pos)

\* C10: a render runs the solver exactly when one of the six arguments differs
\* from the previous render's and returns the object it held otherwise, and the
\* object returned is always the solution of the current arguments.
C10_Memoised ==
    /\ [][~call'.made =>
             /\ recomputed' <=> (props' # props)
             /\ ~recomputed' => trajectoryData' = trajectoryData]_vars
    /\ [](trajectoryData = Solved[props].data)

\* a render with unchanged arguments, which returned the object held
C10_Witness == ~recomputed /\ ~call.made /\ trajectoryData = Solved[props].data

-----------------------------------------------------------------------------
(* C11 .. C20 *)

\* the deviation 0.5 * acc * t^2 that the constant acceleration acc gives by t
Deviation(acc, t) == Mul(Half, Mul(acc, Mul(t, t)))

\* the spin accelerations of the solution held: a.x, and a.y before gravity
SpinX == trajectoryData.getPositionAtTime.a.x
SpinY == Add(trajectoryData.getPositionAtTime.a.y, GRAVITY)

\* C12 as stated: by the flight time the spin accelerations have moved the
\* ball by the horizontal break along x and by the vertical break along y.
C12_Original ==
    /\ Deviation(SpinX, trajectoryData.flightTime) = hb_m(props.hbInches)
    /\ Deviation(SpinY, trajectoryData.flightTime) = ivb_m(props.ivbInches)

\* C12 as amended: for an estimate T_est > 0 the spin accelerations move the
\* ball by the horizontal and the vertical break by the time T_est; by the
\* flight time they move it by the break times (flightTime / T_est)^2.
C12_Amended ==
    (Gt(Locals.T_est, Zero) /\ IsFinite(Locals.T_est)) =>
        LET T == trajectoryData.flightTime
            ratio == Mul(Div(T, Locals.T_est), Div(T, Locals.T_est))
        IN  /\ Deviation(SpinX, Locals.T_est) = hb_m(props.hbInches)
            /\ Deviation(SpinY, Locals.T_est) = ivb_m(props.ivbInches)
            /\ Deviation(SpinX, T) = Mul(hb_m(props.hbInches), ratio)
            /\ Deviation(SpinY, T) = Mul(ivb_m(props.ivbInches), ratio)

\* both breaks are set and the flight time, taken from a root, is not the
\* estimate
C12_Witness ==
    /\ Gt(Locals.T_est, Zero) /\ IsFinite(Locals.T_est)
    /\ RootTaken
    /\ trajectoryData.flightTime # Locals.T_est
    /\ ~Eq(props.hbInches, Zero)
    /\ ~Eq(props.ivbInches, Zero)

\* the two roots u = T^2 of the quadratic for the current arguments
Root1 == u1(Locals.quad_A, Locals.quad_B, Locals.discriminant)
Root2 == u2(Locals.quad_A, Locals.quad_B, Locals.discriminant)

OnlyRoot1 == InQuadraticCase /\ Gt(Root1, Zero) /\ ~Gt(Root2, Zero)
OnlyRoot2 == InQuadraticCase /\ ~Gt(Root1, Zero) /\ Gt(Root2, Zero)
NoRoot == InQuadraticCase /\ ~Gt(Root1, Zero) /\ ~Gt(Root2, Zero)

\* C13 as stated: in the quadratic case with one strictly positive root the
\* flight time is the square root of that root; with none it is the estimate
\* and the solution is marked unreachable.
C13_Original ==
    /\ OnlyRoot1 => trajectoryData.flightTime = Sqrt(Root1)
    /\ OnlyRoot2 => trajectoryData.flightTime = Sqrt(Root2)
    /\ NoRoot =>
           /\ trajectoryData.flightTime = Locals.T_est
           /\ "reachable" \in DOMAIN trajectoryData
           /\ trajectoryData.reachable = FALSE

\* C13 as amended: in the quadratic case with one strictly positive root the
\* flight time is the square root of that root and the console stays empty;
\* with none it is the estimate and the solver writes the warning that no
\* positive flight time is valid (the solution has no field that marks it
\* unreachable).
C13_Amended ==
    /\ OnlyRoot1 => trajectoryData.flightTime = Sqrt(Root1) /\ console = {}
    /\ OnlyRoot2 => trajectoryData.flightTime = Sqrt(Root2) /\ console = {}
    /\ NoRoot =>
           /\ trajectoryData.flightTime = Locals.T_est
           /\ "warn: no valid positive flight time" \in console
           /\ "reachable" \notin DOMAIN trajectoryData

\* the quadratic case with no strictly positive root
C13_Witness == NoRoot /\ "warn: no valid positive flight time" \in console

\* the root u = T^2 of the linear residual B u + C = 0 for the current arguments
LinearRoot == Div(Neg(Locals.quad_C), Locals.quad_B)

LinearRootValid == ~Eq(Locals.quad_B, Zero) /\ Gt(LinearRoot, Zero)

\* C14 as stated: with A = 0 the flight time is sqrt(-C / B) if B # 0 and
\* -C / B > 0; otherwise it is the estimate and the solution is marked
\* unreachable.
C14_Original ==
    Eq(Locals.quad_A, Zero) =>
        IF LinearRootValid
        THEN trajectoryData.flightTime = Sqrt(LinearRoot)
        ELSE /\ trajectoryData.flightTime = Locals.T_est
             /\ "reachable" \in DOMAIN trajectoryData
             /\ trajectoryData.reachable = FALSE

\* C14 as amended: with A = 0 the flight time is sqrt(-C / B) if B # 0 and
\* -C / B > 0, and the console stays empty; otherwise it is the estimate and
\* the solver writes the warning of the linear case (the solution has no field
\* that marks it unreachable).
C14_Amended ==
    Eq(Locals.quad_A, Zero) =>
        IF LinearRootValid
        THEN trajectoryData.flightTime = Sqrt(LinearRoot) /\ console = {}
        ELSE /\ trajectoryData.flightTime = Locals.T_est
             /\ "warn: no valid flight time (linear case)" \in console
             /\ "reachable" \notin DOMAIN trajectoryData

\* zero net acceleration and a target away from the release point, reached in
\* a time other than 1 s
C14_Witness ==
    /\ Eq(Locals.quad_A, Zero)
    /\ LinearRootValid
    /\ trajectoryData.flightTime # One
    /\ trajectoryData.flightTime # Locals.T_est

\* the requested speed in m/s, and the displacement from the release point to
\* the target plane along the flight axis
Speed == Mul(props.velocityMPH, MPH_TO_MPS)
AxisDisplacement == Add(props.targetZ_m, RELEASE_DISTANCE_M)

\* C15: the estimated flight time is the displacement along the flight axis
\* over the speed when that displacement is strictly positive and 0.1 s
\* otherwise; with a speed > 0 it is strictly positive and finite.
C15_Estimate ==
    /\ Gt(AxisDisplacement, Zero) => Locals.T_est = Div(AxisDisplacement, Speed)
    /\ ~Gt(AxisDisplacement, Zero) => Locals.T_est = Q(1, 10)
    /\ Gt(Speed, Zero) => Gt(Locals.T_est, Zero) /\ IsFinite(Locals.T_est)

\* a target plane in front of the release point, with an estimate other than
\* the default
C15_Witness ==
    /\ Gt(AxisDisplacement, Zero)
    /\ Gt(Speed, Zero)
    /\ Locals.T_est # Q(1, 10)

\* the acceleration vector of the solution held
HeldAccel == trajectoryData.getPositionAtTime.a

\* twice the break b (in inches) over the square of the estimate
BreakAccel(b) ==
    Div(Mul(Two, Mul(b, INCHES_TO_METERS)), Mul(Locals.T_est, Locals.T_est))

\* C16: for an estimate T_est > 0 the acceleration is
\* (2 hb / T_est^2, 2 ivb / T_est^2 - g, 0); its z component is 0 for every
\* argument tuple.
C16_Acceleration ==
    /\ Gt(Locals.T_est, Zero) =>
           /\ HeldAccel.x = BreakAccel(props.hbInches)
           /\ HeldAccel.y = Sub(BreakAccel(props.ivbInches), GRAVITY)
    /\ HeldAccel.z = Zero

\* both breaks set, with an estimate that a division computed
C16_Witness ==
    /\ Gt(Locals.T_est, Zero)
    /\ Locals.T_est # Q(1, 10)
    /\ ~Eq(props.hbInches, Zero)
    /\ ~Eq(props.ivbInches, Zero)
    /\ HeldAccel.x # Zero

\* C17: with an estimate T_est <= 0 the accelerations derived from the breaks
\* are zero, whatever the breaks are (nothing is divided by T_est^2): the
\* acceleration is gravity alone.
C17_NoBreak ==
    Le(Locals.T_est, Zero) =>
        /\ HeldAccel.x = Zero
        /\ Add(HeldAccel.y, GRAVITY) = Zero
        /\ HeldAccel = Vec(Zero, Neg(GRAVITY), Zero)

\* a negative estimate with both breaks set
C17_Witness ==
    /\ Lt(Locals.T_est, Zero)
    /\ ~Eq(props.hbInches, Zero)
    /\ ~Eq(props.ivbInches, Zero)


\* |x - y| <= tol
Within(x, y, tol) == Le(AbsQ(Sub(x, y)), tol)

\* the points u and w are within tol of each other on every axis
Near(u, w, tol) ==
    /\ Within(u.x, w.x, tol)
    /\ Within(u.y, w.y, tol)
    /\ Within(u.z, w.z, tol)

FewMillimetres == Q(5, 1000)

\* the scenario of the claim is the one App starts with
DefaultScenario ==
    /\ props = DefaultProps
    /\ props.velocityMPH = Q(95, 1)
    /\ props.ivbInches = Q(15, 1)
    /\ props.hbInches = Q(8, 1)
    /\ P0 = Vec(Zero, Mul(Q(6, 1), FEET_TO_METERS), Mul(Q(-55, 1), FEET_TO_METERS))
    /\ P_target(props) = Vec(Zero, Mul(Q(25, 10), FEET_TO_METERS),
                             Mul(Q(17, 1), INCHES_TO_METERS))

\* C11: in the default scenario (95 mph, vertical break 15 in, horizontal
\* break 8 in, release at (0, 6 ft, -55 ft), target at x = 0, y = 2.5 ft,
\* z = 17 in) the flight time is taken from a positive root of the quadratic,
\* nothing is written to the console, the flight time is between 0.38 s and
\* 0.45 s, and the position at the flight time is within a few millimetres of
\* the target.
C11_DefaultScenario ==
    props = DefaultProps =>
        /\ DefaultScenario
        /\ InQuadraticCase
        /\ RootTaken
        /\ console = {}
        /\ trajectoryData.flightTime \in {Candidate1, Candidate2}
        /\ Le(Q(38, 100), trajectoryData.flightTime)
        /\ Le(trajectoryData.flightTime, Q(45, 100))
        /\ SampledAt(trajectoryData.flightTime) =>
               Near(call.pos, P_target(props), FewMillimetres)

\* the default pitch was thrown and its animation ran to the end of the flight
C11_Witness ==
    /\ props = DefaultProps
    /\ throws > 0
    /\ ~isAnimating
    /\ SampledAt(trajectoryData.flightTime)
    /\ ball = call.pos


\* the stage ran with a flight time that is not positive
FellBack == stage.ran /\ Le(stage.in.flightTime, Zero)

\* the speed asked for
StageSpeed == Sqrt(stage.in.v0sq)

\* u is w times a factor that is not negative
SameDirection(u, w) ==
    /\ Mul(u.x, w.y) = Mul(u.y, w.x)
    /\ Mul(u.y, w.z) = Mul(u.z, w.y)
    /\ Mul(u.x, w.z) = Mul(u.z, w.x)
    /\ Ge(Dot(u, w), Zero)

\* from the release point, at z = -RELEASE_DISTANCE_M, towards the plate, at
\* z = 0: the axis Z as the scene has it
TowardsPlate == Vec(Zero, Zero, Q(Sgn(Neg(P0.z)[1]), 1))

\* with a displacement that is not zero, the velocity the stage falls back to
\* has the speed asked for and points at the target
AimedAtTarget ==
    /\ Dot(stage.out.v0, stage.out.v0) = stage.in.v0sq
    /\ SameDirection(stage.out.v0, stage.in.dP)

\* C18: when the velocity stage gets a flight time <= 0, the initial velocity
\* has the speed asked for and points at the target; with a zero displacement
\* it points from the release point towards the plate, with the speed asked
\* for.
C18_Fallback ==
    FellBack =>
        IF stage.in.dP = Vec(Zero, Zero, Zero)
        THEN stage.out.v0 = Scaled(TowardsPlate, StageSpeed)
        ELSE AimedAtTarget

\* the part of C18 about a displacement that is not zero
C18_Aimed == FellBack /\ stage.in.dP # Vec(Zero, Zero, Zero) => AimedAtTarget


\* the times in ts never decrease
NonDecreasing(ts) == \A i \in 1 .. Len(ts) - 1 : Le(ts[i], ts[i + 1])

\* the latest time an animating frame passed
LastPassed(ts) == ts[Len(ts)]

\* C19 as stated: between a Throw and the completion of its animation, the
\* time a frame passes to getPositionAtTime is never below the time the frame
\* before it passed, whatever changes of the solver inputs come between the
\* frames.
C19_Original == NonDecreasing(passed)

\* C19, amended: a frame of a running animation passes a time that is not
\* below the time passed by the frame before it, unless the flight time has
\* come to lie below that time; it then passes the end of the flight (the
\* flight time, or 0 when the flight time is not positive).
C19_Amended ==
    [][(isAnimating /\ passed # << >> /\ passed' # << >>
          /\ passed' = Window(passed, LastPassed(passed')))
          => \/ Le(LastPassed(passed), LastPassed(passed'))
             \/ /\ Lt(trajectoryData.flightTime, LastPassed(passed))
                /\ \/ LastPassed(passed') = trajectoryData.flightTime
                   \/ /\ Le(trajectoryData.flightTime, Zero)
                      /\ LastPassed(passed') = Zero]_vars

\* an animation whose frames passed growing times, with solver inputs that are
\* not the ones App starts with, ran to its end
C19_Witness ==
    /\ Len(passed) >= 2
    /\ Lt(passed[1], passed[2])
    /\ props # DefaultProps
    /\ ~isAnimating
    /\ SampledAt(trajectoryData.flightTime)


\* the ball lies where the flight ends
AtEndOfFlight ==
    ball = getPositionAtTime(trajectoryData.getPositionAtTime, trajectoryData.flightTime)

\* the frame that ran last completed the animation: it called the function
\* with the flight time and put the ball at the position returned
Completed ==
    /\ ~isAnimating
    /\ SampledAt(trajectoryData.flightTime)
    /\ ball = call.pos
    /\ AtEndOfFlight

\* C20: once an animation runs with a positive flight time, and frames with a
\* positive delta keep coming, the animation completes: isAnimating becomes
\* false (by onAnimationComplete) with the ball at
\* getPositionAtTime(flightTime).
C20_Completes ==
    (isAnimating /\ Gt(trajectoryData.flightTime, Zero)) ~> Completed

\* a thrown pitch whose animation has completed, after more than one frame
C20_Witness ==
    /\ throws > 0
    /\ Len(passed) >= 2
    /\ Completed
    /\ animationTime = trajectoryData.flightTime


-----------------------------------------------------------------------------
(* C21 .. C30 *)

\* a step that is a useFrame callback taking its animating branch
AnimatingFrameStep == isAnimating /\ throws' = throws /\ call'.made

\* a step that is a useFrame callback taking its other branch
IdleFrameStep == ~isAnimating /\ \E delta \in Deltas : Frame(delta)

\* C21: a frame processed while animating sets the animation time to
\* min(animationTime + delta, flightTime) for a positive flight time and to
\* min(animationTime + delta, 0) otherwise, never to a time above the flight
\* time, and calls setAnimationTime only when that time differs from the
\* current one.
C21_TimeClamp ==
    [][AnimatingFrameStep =>
          /\ \E delta \in Deltas :
                animationTime' =
                    IF Gt(trajectoryData.flightTime, Zero)
                    THEN MathMin(Add(animationTime, delta), trajectoryData.flightTime)
                    ELSE MathMin(Add(animationTime, delta), Zero)
          /\ Le(animationTime', trajectoryData.flightTime)
          /\ "setAnimationTime" \in called' <=> animationTime' # animationTime]_vars

\* a frame has called setAnimationTime with the flight time, which the sum
\* animationTime + delta had passed
C21_Witness ==
    /\ "setAnimationTime" \in called
    /\ animationTime = trajectoryData.flightTime
    /\ Len(passed) = 2
    /\ \A delta \in Deltas : Gt(Add(passed[1], delta), animationTime)


\* C22: a frame processed while not animating puts the ball at
\* getPositionAtTime(flightTime) if animationTime >= flightTime and
\* flightTime > 0, and at the release point otherwise; so once an animation has
\* completed, the ball stays where the flight ended for as long as neither a
\* Throw nor a change of the solver inputs comes.
C22_IdleBall ==
    /\ [][IdleFrameStep =>
             ball' = IF /\ Ge(animationTime, trajectoryData.flightTime)
                        /\ Gt(trajectoryData.flightTime, Zero)
                     THEN getPositionAtTime(trajectoryData.getPositionAtTime,
                                            trajectoryData.flightTime)
                     ELSE trajectoryData.releasePoint]_vars
    /\ [][(/\ ~isAnimating
           /\ completions > 0
           /\ AtEndOfFlight
           /\ Ge(animationTime, trajectoryData.flightTime)
           /\ throws' = throws
           /\ props' = props) => ball' = ball]_vars

\* after a completed animation a frame found the ball resting where the flight
\* ended
C22_Witness ==
    /\ ~isAnimating
    /\ completions > 0
    /\ called = {}
    /\ SampledAt(trajectoryData.flightTime)
    /\ AtEndOfFlight
    /\ ball # trajectoryData.releasePoint


\* C23: Throw can be pressed in every state, also while an animation runs and
\* after one has completed; it sets animationTime to 0 and isAnimating to true
\* and leaves the pitch inputs and the target as they are, and the frame after
\* it starts from the release point: it passes min(delta, flightTime).
C23_Throw ==
    /\ [](throws < MaxThrows => ENABLED ThrowPitch)
    /\ [][throws' # throws =>
             /\ animationTime' = Zero
             /\ isAnimating'
             /\ props' = props
             /\ trajectoryData' = trajectoryData]_vars
    /\ [][(AnimatingFrameStep /\ passed = << >>) =>
             \E delta \in Deltas :
                 call'.t = MathMin(delta, trajectoryData.flightTime)]_vars

\* Throw was pressed while an animation was in flight
C23_Witness ==
    /\ throws >= 2
    /\ isAnimating
    /\ animationTime = Zero
    /\ passed = << >>
    /\ call.made
    /\ Gt(call.t, Zero)
    /\ Lt(call.t, trajectoryData.flightTime)
    /\ ball = call.pos


\* the margin of the claim: 4 inches
FourInches == Mul(Q(4, 1), INCHES_TO_METERS)

\* C24: after any sequence of mouse and touch down, move and up events on the
\* target pad, targetX is between -width/2 - margin and width/2 + margin and
\* targetY between bottom - margin and top + margin, the margin being 4
\* inches, also for a pointer outside the pad; a pointer at the top edge of
\* the pad, or above it, gives the largest targetY.
C24_TargetRange ==
    /\ Le(Sub(Neg(Div(STRIKE_ZONE_WIDTH, Two)), FourInches), props.targetX_m)
    /\ Le(props.targetX_m, Add(Div(STRIKE_ZONE_WIDTH, Two), FourInches))
    /\ Le(Sub(STRIKE_ZONE_BOTTOM, FourInches), props.targetY_m)
    /\ Le(props.targetY_m, Add(STRIKE_ZONE_TOP, FourInches))
    /\ Le(pad.y, Zero) => props.targetY_m = Add(STRIKE_ZONE_TOP, FourInches)
    /\ Ge(pad.y, padHeight) => props.targetY_m = Sub(STRIKE_ZONE_BOTTOM, FourInches)

\* a drag has ended with the pointer above and to the right of the pad
C24_Witness ==
    /\ ~pad.isDragging
    /\ Lt(pad.y, Zero)
    /\ Gt(pad.x, padWidth)
    /\ props.targetX_m = maxX
    /\ props.targetY_m = maxY
    /\ trajectoryData = Solved[props].data


\* C25: in every state of the app the speed handed to the solver is strictly
\* positive: it starts at 95 mph and the velocity control keeps it between 60
\* and 105 mph.
C25_PositiveSpeed ==
    /\ Gt(props.velocityMPH, Zero)
    /\ Le(Q(60, 1), props.velocityMPH) /\ Le(props.velocityMPH, Q(105, 1))
    /\ Gt(Mul(props.velocityMPH, MPH_TO_MPS), Zero)

C25_Witness ==
    /\ props.velocityMPH = Q(60, 1) /\ props.velocityMPH # DefaultProps.velocityMPH
    /\ recomputed /\ trajectoryData = Solved[props].data

\* the launches of free fall that end at the current target with the current speed
LaunchesHere == {e.launch : e \in {e \in LaunchTable : e.props = props}}

\* no flatter parabola of the same speed reaches the target of the launch l:
\* t^2 is the smaller root of (g^2 / 4) u^2 + B u + |DeltaP|^2 = 0, the product
\* of whose roots is 4 |DeltaP|^2 / g^2
Flatter(l) ==
    Le(Mul(Mul(Mul(l.t, l.t), Mul(l.t, l.t)), Mul(GRAVITY, GRAVITY)),
       Mul(Four, Locals.quad_C))

Millisecond == Q(1, 1000)

\* C26: without break and with a target on the free-fall parabola of a launch
\* at the requested speed, the solver takes the exact-solution branch and the
\* flight time is the time at which that parabola reaches the target.
C26_Original ==
    \A l \in LaunchesHere :
        /\ InQuadraticCase /\ RootTaken
        /\ Within(trajectoryData.flightTime, l.t, Millisecond)

\* C26 as amended: the solver takes the exact-solution branch and the flight
\* time is the candidate nearer to the estimate; for a target in front of the
\* release point that is the smaller candidate, so the flight time is the
\* parabola's time when no flatter parabola of that speed reaches the target,
\* and is less than it otherwise.
C26_Amended ==
    \A l \in LaunchesHere :
        /\ InQuadraticCase /\ BothValid
        /\ Le(Distance(trajectoryData.flightTime), Distance(Candidate1))
        /\ Le(Distance(trajectoryData.flightTime), Distance(Candidate2))
        /\ Gt(Locals.DeltaP.z, Zero) =>
              /\ trajectoryData.flightTime = Candidate2
              /\ Le(Candidate2, Candidate1)
              /\ Flatter(l) => Within(trajectoryData.flightTime, l.t, Millisecond)
              /\ ~Flatter(l) =>
                    /\ Lt(trajectoryData.flightTime, Sub(l.t, Millisecond))
                    /\ Within(Candidate1, l.t, Millisecond)

\* the target is in front and lies on a lobbed parabola of the requested speed
C26_Witness ==
    \E l \in LaunchesHere :
        /\ Gt(Locals.DeltaP.z, Zero)
        /\ ~Flatter(l)
        /\ Within(Candidate1, l.t, Millisecond)
        /\ SampledAt(trajectoryData.flightTime)

\* the flight time is the estimate, no root having been taken, and is positive
PositiveFallback == ~RootTaken /\ Gt(trajectoryData.flightTime, Zero)

\* |v0|^2 is the square of the requested speed
SpeedMet ==
    Eq(Dot(trajectoryData.initialVelocity, trajectoryData.initialVelocity),
       Locals.v0_mps_sq)

\* C27: for every solution with flightTime > 0, every fallback to the estimate
\* included, getPositionAtTime(flightTime) is the target point; in the
\* fallbacks only the launch-speed constraint |v0| = speed is not met.
C27_FallbackRoundTrip ==
    /\ (SampledAt(trajectoryData.flightTime) /\ Gt(trajectoryData.flightTime, Zero)) =>
          call.pos = P_target(props)
    /\ PositiveFallback => ~SpeedMet

\* the same for every speed but zero, where the estimate DeltaP.z / speed is
\* not finite
C27_NonZeroSpeed == Eq(props.velocityMPH, Zero) \/ C27_FallbackRoundTrip

\* a fallback to a positive estimate, sampled at its flight time, gave the target
C27_Fallback ==
    /\ PositiveFallback
    /\ SampledAt(trajectoryData.flightTime)
    /\ call.pos = P_target(props)
    /\ call.pos # trajectoryData.releasePoint
    /\ ~SpeedMet

\* C28: in the case A # 0, D >= 0 with C = |DeltaP|^2 > 0 the roots u1 and u2
\* have the same sign, so both candidate times are valid or neither is; exactly
\* one candidate is valid only when the target is the release point (C = 0).
C28_SameSign ==
    /\ (InQuadraticCase /\ Gt(Locals.quad_C, Zero)) =>
          (Gt(Root1, Zero) <=> Gt(Root2, Zero))
    /\ (OnlyRoot1 \/ OnlyRoot2) => Eq(Locals.quad_C, Zero)

\* a control changed a solver input while the animation runs: the render just
\* made ran the memo callback
ChangedInFlight == isAnimating /\ recomputed

\* a step that is the frame completing the animation
CompletingFrameStep == isAnimating /\ ~isAnimating'

\* C29: when a solver input changes while the animation runs, the animation
\* still completes as frames with a positive delta keep coming, and the frame
\* that completes it puts the ball at getPositionAtTime(flightTime) of the
\* solution current at that frame.
C29_ChangeInFlight ==
    /\ ChangedInFlight ~> (~isAnimating /\ completions > 0)
    /\ [][CompletingFrameStep =>
             /\ trajectoryData' = Solved[props].data
             /\ call'.t = trajectoryData'.flightTime
             /\ ball' = getPositionAtTime(Solved[props].data.getPositionAtTime,
                                          Solved[props].data.flightTime)]_vars

\* the animation completed at a flight time that a change of an input had
\* brought below the time already passed
C29_Witness ==
    /\ Completed
    /\ completions = 1
    /\ Len(passed) = 2
    /\ Gt(passed[1], passed[2])
    /\ passed[2] = Solved[props].data.flightTime

\* C30: onAnimationComplete is called at most once per Throw, also when
\* several frame callbacks run before the state updates of an earlier one have
\* been applied to the props the callback reads.
C30_AtMostOnce == completions <= 1

=========================================================================
